---- MODULE Spec2Model ----
(***************************************************************************)
(* Model of the AWS news MCP servers (streamable-HTTP-server/main.py and   *)
(* studio/main.py): the query builder and news fetcher (fetch_aws_news),   *)
(* the tool operations wrapping it, and the RSS feed tool.                 *)
(*                                                                         *)
(* Python strings are modelled as sequences of one-character strings, so   *)
(* that str.lower, str.replace, the substring test and the date parser are *)
(* computed character by character.                                        *)
(***************************************************************************)
EXTENDS Integers, Sequences, FiniteSets, TLC

VARIABLES
    pc,               \* "idle", "awaiting" (suspended at client.get), "returned", "raised"
    variant,          \* the server called: "http" or "studio"
    op,               \* the tool operation called
    args,             \* its arguments
    params,           \* the outbound query parameters built by fetch_aws_news
    gets,             \* outbound GETs issued by this invocation
    clients_created,  \* httpx.AsyncClient objects created by this invocation
    clients_open,     \* of which still open
    response,         \* what the remote end answered to the GET
    outcome,          \* how the invocation went: "ok" or the fault
    feed,             \* what feedparser.parse gave
    scanned,          \* feed entries the scan loop looked at
    result,           \* the string returned to the caller
    calls,            \* concurrent invocations: each one's position, arguments and result
    frames,           \* concurrent invocations: the locals of each coroutine frame
    prompt            \* the prompt template called and what it gave

\* the state of the single invocation, of the concurrent invocations, of the prompts
tool_vars == <<pc, variant, op, args, params, gets, clients_created, clients_open,
               response, outcome, feed, scanned, result>>
conc_vars == <<calls, frames>>

vars == <<tool_vars, conc_vars, prompt>>

----------------------------------------------------------------------------
(* Bounds of the model *)

MaxEntries == 3
MaxArticles == 3
MaxResults == 2

----------------------------------------------------------------------------
(* Python values *)

\* Python's None: a value that is no string of the model
None == <<"<None>">>

\* variant of Truthy for the test `is not None`
TruthyNotNone(s) == s # None

\* truthiness of an Optional[str]: None and "" are falsy
Truthy(s) == s # None /\ Len(s) > 0

UpperChars == <<"A","B","C","D","E","F","G","H","I","J","K","L","M",
                "N","O","P","Q","R","S","T","U","V","W","X","Y","Z">>
LowerChars == <<"a","b","c","d","e","f","g","h","i","j","k","l","m",
                "n","o","p","q","r","s","t","u","v","w","x","y","z">>

LowerChar(c) ==
    IF \E i \in 1..Len(UpperChars) : UpperChars[i] = c
    THEN LowerChars[CHOOSE i \in 1..Len(UpperChars) : UpperChars[i] = c]
    ELSE c

\* str.lower()
Lower(s) == [i \in 1..Len(s) |-> LowerChar(s[i])]

RECURSIVE Replace(_, _, _)
\* str.replace(old, new) for a one-character old: every occurrence is replaced
Replace(s, old, new) ==
    IF s = <<>> THEN <<>>
    ELSE (IF Head(s) = old THEN new ELSE <<Head(s)>>) \o Replace(Tail(s), old, new)

\* the Python test `sub in s`
Contains(s, sub) ==
    \E i \in 0..(Len(s) - Len(sub)) :
        \A j \in 1..Len(sub) : s[i + j] = sub[j]

----------------------------------------------------------------------------
(* datetime.fromisoformat, for the extended calendar format                *)
(*   YYYY-MM-DD[*HH[:MM[:SS[.f+]]][Z|(+|-)HH[:MM[:SS[.f+]]]]]              *)

DigitChars == <<"0","1","2","3","4","5","6","7","8","9">>
IsDigit(c) == \E i \in 1..Len(DigitChars) : DigitChars[i] = c
DigitVal(c) == (CHOOSE i \in 1..Len(DigitChars) : DigitChars[i] = c) - 1

AllDigits(s, from, to) == \A i \in from..to : IsDigit(s[i])
Num2(s, i) == DigitVal(s[i]) * 10 + DigitVal(s[i + 1])
Num4(s, i) == Num2(s, i) * 100 + Num2(s, i + 2)

IsLeap(y) == (y % 4 = 0) /\ ((y % 100 # 0) \/ (y % 400 = 0))
DaysInMonth(y, m) ==
    IF m = 2 THEN (IF IsLeap(y) THEN 29 ELSE 28)
    ELSE IF m \in {4, 6, 9, 11} THEN 30 ELSE 31

\* the shape YYYY-MM-DD in the first ten characters
DateShape(s) ==
    /\ Len(s) >= 10
    /\ AllDigits(s, 1, 4) /\ s[5] = "-"
    /\ AllDigits(s, 6, 7) /\ s[8] = "-"
    /\ AllDigits(s, 9, 10)

DateInRange(s) ==
    /\ Num4(s, 1) >= 1
    /\ Num2(s, 6) \in 1..12
    /\ Num2(s, 9) \in 1..DaysInMonth(Num4(s, 1), Num2(s, 6))

\* the shape HH[:MM[:SS[.f+]]] of a whole string t
ClockShape(t) ==
    \/ Len(t) = 2 /\ AllDigits(t, 1, 2)
    \/ Len(t) = 5 /\ AllDigits(t, 1, 2) /\ t[3] = ":" /\ AllDigits(t, 4, 5)
    \/ /\ Len(t) >= 8
       /\ AllDigits(t, 1, 2) /\ t[3] = ":" /\ AllDigits(t, 4, 5)
       /\ t[6] = ":" /\ AllDigits(t, 7, 8)
       /\ \/ Len(t) = 8
          \/ Len(t) >= 10 /\ t[9] \in {".", ","} /\ AllDigits(t, 10, Len(t))

ClockInRange(t) ==
    /\ Num2(t, 1) <= 23
    /\ Len(t) >= 5 => Num2(t, 4) <= 59
    /\ Len(t) >= 8 => Num2(t, 7) <= 59

TzChars == {"+", "-", "Z"}
HasTz(t) == \E i \in 1..Len(t) : t[i] \in TzChars
TzPos(t) == CHOOSE i \in 1..Len(t) :
                t[i] \in TzChars /\ \A j \in 1..(i - 1) : t[j] \notin TzChars

\* the time part, before the first of + - Z
ClockOf(t) == IF HasTz(t) THEN SubSeq(t, 1, TzPos(t) - 1) ELSE t
\* the offset, after the sign (<<>> for Z and for no offset)
OffsetOf(t) == IF HasTz(t) THEN SubSeq(t, TzPos(t) + 1, Len(t)) ELSE <<>>

TimeShape(t) ==
    /\ ClockShape(ClockOf(t))
    /\ HasTz(t) =>
        IF t[TzPos(t)] = "Z" THEN TzPos(t) = Len(t)
        ELSE ClockShape(OffsetOf(t))

\* an offset is a timedelta of less than 24 hours; its fields are not checked one by one
OffsetInRange(o) ==
    Num2(o, 1) * 3600
      + (IF Len(o) >= 5 THEN Num2(o, 4) * 60 ELSE 0)
      + (IF Len(o) >= 8 THEN Num2(o, 7) ELSE 0) < 86400

TimeInRange(t) ==
    /\ ClockInRange(ClockOf(t))
    /\ (HasTz(t) /\ t[TzPos(t)] # "Z") => OffsetInRange(OffsetOf(t))

\* datetime.fromisoformat(s): TRUE when it returns, FALSE when it raises ValueError
fromisoformat_ok(s) ==
    /\ DateShape(s)
    /\ DateInRange(s)
    /\ Len(s) > 10 =>
        LET t == SubSeq(s, 12, Len(s)) IN TimeShape(t) /\ TimeInRange(t)

\* the message of the ValueError that datetime.fromisoformat(s) raises
fromisoformat_error(s) ==
    IF ~DateShape(s) THEN "Invalid isoformat string"
    ELSE IF Num4(s, 1) < 1 THEN "year out of range"
    ELSE IF Num2(s, 6) \notin 1..12 THEN "month must be in 1..12"
    ELSE IF ~DateInRange(s) THEN "day is out of range for month"
    ELSE IF ~TimeShape(SubSeq(s, 12, Len(s))) THEN "Invalid isoformat string"
    ELSE "time field out of range"

----------------------------------------------------------------------------
(* String literals of the program *)

STR_all == <<"a","l","l">>
STR_news == <<"n","e","w","s">>
STR_blogs == <<"b","l","o","g","s">>
STR_blog == <<"b","l","o","g">>
STR_utc_offset == <<"+","0","0",":","0","0">>

InvalidDateMessage ==
    "Invalid date format. Please use ISO 8601 format (e.g., 2025-05-01T00:00:00Z)"

----------------------------------------------------------------------------
(* Argument values a caller may pass *)

Topics == { <<"s","3">>, <<>> }

NewsTypes ==
    { STR_all, STR_news, STR_blogs, STR_blog,
      <<"N","e","w","s">>, <<"N","E","W","S">>,
      <<"B","L","O","G","S">>, <<"B","l","o","g">>,
      <<"A","L","L">>, <<"n","e","w","s","x">>, <<>> }

DATE_z == <<"2","0","2","5","-","0","5","-","0","1","T","0","0",":","0","0",":","0","0","Z">>
DATE_offset == <<"2","0","2","5","-","0","5","-","0","1","T","0","0",":","0","0",":","0","0","+","0","0",":","0","0">>
DATE_local == <<"2","0","2","5","-","0","5","-","0","1","T","0","0",":","0","0",":","0","0">>
DATE_only == <<"2","0","2","5","-","0","5","-","0","1">>
DATE_invalid == <<"i","n","v","a","l","i","d","-","d","a","t","e">>
DATE_month13 == <<"2","0","2","5","-","1","3","-","0","1","T","0","0",":","0","0",":","0","0","Z">>
DATE_zz == <<"2","0","2","5","-","0","5","-","0","1","T","0","0",":","0","0",":","0","0","Z","Z">>
DATE_lower_z == <<"2","0","2","5","-","0","5","-","0","1","T","0","0",":","0","0",":","0","0","z">>

SinceDates ==
    { None, <<>>, DATE_z, DATE_offset, DATE_local, DATE_only,
      DATE_invalid, DATE_month13, DATE_zz, DATE_lower_z }

----------------------------------------------------------------------------
(* Exceptions and dictionaries *)

Raise(type, msg) == [raised |-> TRUE, type |-> type, msg |-> msg]
Returns(value) == [raised |-> FALSE, value |-> value]

\* d[k] = v on a dict
SetItem(d, k, v) == [x \in (DOMAIN d) \cup {k} |-> IF x = k THEN v ELSE d[x]]

----------------------------------------------------------------------------
(* fetch_aws_news up to its await: the query builder *)

\* variant of ArticleTypeFilter comparing news_type without lowercasing it
ArticleTypeFilterCaseSensitive(p, news_type) ==
    IF news_type = STR_news THEN SetItem(p, "article_type", STR_news)
    ELSE IF news_type = STR_blogs \/ news_type = STR_blog
         THEN SetItem(p, "article_type", STR_blog)
    ELSE p

\* the parameters with the article-type filter
ArticleTypeFilter(p, news_type) ==
    IF Lower(news_type) = STR_news THEN SetItem(p, "article_type", STR_news)
    ELSE IF Lower(news_type) = STR_blogs \/ Lower(news_type) = STR_blog
         THEN SetItem(p, "article_type", STR_blog)
    ELSE p

BaseParams(topic, include_regional_expansions, limit) ==
    [page_size |-> limit,
     hide_regional_expansions |-> ~include_regional_expansions,
     search |-> topic]

\* variant of http_build_query sending the string the validation parsed
http_build_query_sends_replaced(topic, news_type, include_regional_expansions, limit, since_date) ==
    LET p == ArticleTypeFilter([page_size |-> limit,
                                hide_regional_expansions |-> ~include_regional_expansions,
                                search |-> topic], news_type)
    IN  IF Truthy(since_date)
        THEN IF fromisoformat_ok(Replace(since_date, "Z", STR_utc_offset))
             THEN Returns(SetItem(p, "since", Replace(since_date, "Z", STR_utc_offset)))
             ELSE Raise("ValueError", InvalidDateMessage)
        ELSE Returns(p)

\* streamable-HTTP-server: a ValueError of the parser is replaced by the fixed message
http_build_query(topic, news_type, include_regional_expansions, limit, since_date) ==
    LET p == ArticleTypeFilter(BaseParams(topic, include_regional_expansions, limit),
                               news_type)
    IN  IF Truthy(since_date)
        THEN IF fromisoformat_ok(Replace(since_date, "Z", STR_utc_offset))
             THEN Returns(SetItem(p, "since", since_date))
             ELSE Raise("ValueError", InvalidDateMessage)
        ELSE Returns(p)

\* studio: the parser's own ValueError propagates
studio_build_query(topic, news_type, include_regional_expansions, limit, since_date) ==
    LET p == ArticleTypeFilter(BaseParams(topic, include_regional_expansions, limit),
                               news_type)
    IN  IF Truthy(since_date)
        THEN IF fromisoformat_ok(Replace(since_date, "Z", STR_utc_offset))
             THEN Returns(SetItem(p, "since", since_date))
             ELSE Raise("ValueError",
                        fromisoformat_error(Replace(since_date, "Z", STR_utc_offset)))
        ELSE Returns(p)

build_query(v, topic, news_type, include_regional_expansions, limit, since_date) ==
    IF v = "http"
    THEN http_build_query(topic, news_type, include_regional_expansions, limit, since_date)
    ELSE studio_build_query(topic, news_type, include_regional_expansions, limit, since_date)

----------------------------------------------------------------------------
(* fetch_aws_news after its await: status check and body parse *)

\* what the remote end can answer to the GET
Bodies == { <<>>, <<"a1">>, <<"a1", "a2">> }
RemoteOutcomes ==
    [kind : {"fault"}, status : {0}, parsable : {FALSE}, data : {<<>>}]
    \cup [kind : {"response"}, status : {200, 204, 301, 404, 500},
          parsable : BOOLEAN, data : Bodies]

\* variant of is_success raising for 4xx and 5xx only
is_success_below_400(status) == status < 400

\* response.raise_for_status() raises for every status outside 2xx
is_success(status) == status \in 200..299

fetch_aws_news_response(o) ==
    IF o.kind = "fault" THEN Raise("ConnectError", "All connection attempts failed")
    ELSE IF ~is_success(o.status) THEN Raise("HTTPStatusError", "status error response")
    ELSE IF ~o.parsable THEN Raise("JSONDecodeError", "Expecting value")
    ELSE Returns(o.data)

----------------------------------------------------------------------------
(* The tool operations' try / except Exception *)

\* the classes the operations can raise, all subclasses of Exception
ExceptionClasses ==
    {"ValueError", "ConnectError", "HTTPStatusError", "JSONDecodeError", "Exception"}

\* variant of Caught for `except ValueError as e`
CaughtValueErrorOnly(type) == type = "ValueError"

\* `except Exception as e`
Caught(type) == type \in ExceptionClasses

NoResult == <<>>

\* f"Error <context>: {str(e)}"
ErrorString(context, msg) == [error |-> context, message |-> msg]

\* json.dumps(result, indent=2) of the news envelope
NewsEnvelope(topic, news_type, include_regional_expansions, articles) ==
    [topic |-> topic, news_type |-> news_type,
     include_regional_expansions |-> include_regional_expansions,
     articles |-> articles]

ErrorContext(tool) ==
    CASE tool = "get_aws_news" -> "Error fetching AWS news"
      [] tool = "get_aws_announcements" -> "Error fetching AWS announcements"
      [] tool = "get_aws_blogs" -> "Error fetching AWS blogs"
      [] tool = "get_aws_feed_news" -> "Error fetching AWS feed"

\* the news_type and include_regional_expansions a tool passes on and echoes
EffectiveNewsType(tool, a) ==
    CASE tool = "get_aws_news" -> a.news_type
      [] tool = "get_aws_announcements" -> STR_news
      [] tool = "get_aws_blogs" -> STR_blogs

\* variant of EffectiveRegional passing the caller's flag on for every tool
EffectiveRegionalPassThrough(tool, a) == a.include_regional_expansions

EffectiveRegional(tool, a) ==
    IF tool = "get_aws_blogs" THEN FALSE ELSE a.include_regional_expansions

\* the except clause of a tool operation: the state after exception r
ExceptClause(tool, r) ==
    IF Caught(r.type)
    THEN /\ pc' = "returned"
         /\ result' = ErrorString(ErrorContext(tool), r.msg)
    ELSE /\ pc' = "raised"
         /\ result' = NoResult

NewsArgs ==
    [topic : Topics, news_type : NewsTypes, include_regional_expansions : BOOLEAN,
     number_of_results : 1..MaxResults, since_date : SinceDates]

\* a news tool from its call to the await of client.get(url), or to its
\* return when the query builder raises
NewsToolCall(v, tool, a) ==
    LET q == build_query(v, a.topic, EffectiveNewsType(tool, a),
                         EffectiveRegional(tool, a), a.number_of_results, a.since_date)
    IN  /\ variant' = v /\ op' = tool /\ args' = a
        /\ IF q.raised
           THEN /\ ExceptClause(tool, q)
                /\ outcome' = "rejected"
                /\ UNCHANGED <<params, gets, clients_created, clients_open>>
           ELSE /\ pc' = "awaiting"
                /\ params' = q.value
                /\ clients_created' = clients_created + 1
                /\ clients_open' = clients_open + 1
                /\ gets' = gets + 1
                /\ outcome' = "pending"
                /\ result' = NoResult
        /\ UNCHANGED <<response, feed, scanned, conc_vars, prompt>>

get_aws_news ==
    /\ pc = "idle"
    /\ \E v \in {"http", "studio"}, a \in NewsArgs : NewsToolCall(v, "get_aws_news", a)

\* the fields of the argument record that a tool does not take are never read
\* by it (EffectiveNewsType, EffectiveRegional): whatever else the caller has in
\* hand, the tool passes on its own fixed values
get_aws_announcements ==
    /\ pc = "idle"
    /\ \E a \in NewsArgs : NewsToolCall("studio", "get_aws_announcements", a)

get_aws_blogs ==
    /\ pc = "idle"
    /\ \E a \in NewsArgs : NewsToolCall("studio", "get_aws_blogs", a)

\* variant of news_response that issues the GET again after a failure
news_response_retry ==
    /\ pc = "awaiting"
    /\ \E o \in RemoteOutcomes :
        LET r == fetch_aws_news_response(o) IN
        /\ response' = o
        /\ outcome' = IF r.raised THEN r.type ELSE "ok"
        /\ IF r.raised /\ gets < 2
           THEN /\ gets' = gets + 1
                /\ UNCHANGED <<pc, result, clients_open>>
           ELSE /\ gets' = gets
                /\ clients_open' = clients_open - 1
                /\ IF r.raised
                   THEN ExceptClause(op, r)
                   ELSE /\ pc' = "returned"
                        /\ result' = NewsEnvelope(args.topic, EffectiveNewsType(op, args),
                                                  EffectiveRegional(op, args), r.value)
    /\ UNCHANGED <<variant, op, args, params, clients_created, feed, scanned,
                   conc_vars, prompt>>

\* variant of news_response closing the client after the body is parsed only,
\* as without `async with`
news_response_leak ==
    /\ pc = "awaiting"
    /\ \E o \in RemoteOutcomes :
        LET r == fetch_aws_news_response(o) IN
        /\ response' = o
        /\ outcome' = IF r.raised THEN r.type ELSE "ok"
        /\ IF r.raised
           THEN ExceptClause(op, r) /\ UNCHANGED clients_open
           ELSE /\ clients_open' = clients_open - 1
                /\ pc' = "returned"
                /\ result' = NewsEnvelope(args.topic, EffectiveNewsType(op, args),
                                          EffectiveRegional(op, args), r.value)
    /\ UNCHANGED <<variant, op, args, params, gets, clients_created, feed, scanned,
                   conc_vars, prompt>>

\* the awaited GET completes: the client is closed on leaving `async with`,
\* and the tool returns the envelope or the error string
news_response ==
    /\ pc = "awaiting"
    /\ \E o \in RemoteOutcomes :
        LET r == fetch_aws_news_response(o) IN
        /\ response' = o
        /\ clients_open' = clients_open - 1
        /\ outcome' = IF r.raised THEN r.type ELSE "ok"
        /\ IF r.raised
           THEN ExceptClause(op, r)
           ELSE /\ pc' = "returned"
                /\ result' = NewsEnvelope(args.topic, EffectiveNewsType(op, args),
                                          EffectiveRegional(op, args), r.value)
    /\ UNCHANGED <<variant, op, args, params, gets, clients_created, feed, scanned,
                   conc_vars, prompt>>

----------------------------------------------------------------------------
(* get_aws_feed_news *)

FeedUrl == "https://aws.amazon.com/about-aws/whats-new/recent/feed/"

\* entries of the parsed feed: any of the fields may be missing
ENTRY_lambda ==
    [title |-> <<"N","e","w"," ","L","a","m","b","d","a">>,
     description |-> <<"a","w","s">>,
     link |-> <<"u","1">>, published |-> <<"d","1">>]
ENTRY_described ==
    [title |-> <<"S","3">>,
     description |-> <<"f","o","r"," ","l","a","m","b","d","a">>,
     link |-> <<"u","2">>, published |-> <<"d","2">>,
     tags |-> << [term |-> <<"s","3">>], [term |-> <<"n","e","w">>] >>]
ENTRY_s3 ==
    [title |-> <<"S","3"," ","U","p","d","a","t","e">>,
     description |-> <<"s","3">>,
     link |-> <<"u","3">>, tags |-> <<>>]
ENTRY_bare == [link |-> <<"u","4">>]

Entries == {ENTRY_lambda, ENTRY_described, ENTRY_s3, ENTRY_bare}

EntryLists == UNION { [1..n -> Entries] : n \in 0..MaxEntries }

\* what feedparser.parse can give: a feed object, well-formed or bozo, or a fault
FeedOutcomes ==
    [kind : {"parsed"}, bozo : {FALSE}, bozo_exception : {""}, entries : EntryLists]
    \cup [kind : {"parsed"}, bozo : {TRUE}, bozo_exception : {"not well-formed"},
          entries : EntryLists]
    \cup [kind : {"fault"}, bozo : {FALSE}, bozo_exception : {""}, entries : {<<>>}]

SearchKeywords ==
    { None, <<>>, <<"l","a","m","b","d","a">>, <<"L","A","M","B","D","A">>,
      <<"s","3">>, <<"z","z">> }

\* entry.get(key, "")
get(entry, key) == IF key \in DOMAIN entry THEN entry[key] ELSE <<>>

hasattr(entry, name) == name \in DOMAIN entry

\* variant of keyword_match looking at the title only
keyword_match_title_only(entry, search_keywords) ==
    Truthy(search_keywords) =>
        Contains(Lower(get(entry, "title")), Lower(search_keywords))

\* the keyword test of one entry: TRUE when the entry is kept
keyword_match(entry, search_keywords) ==
    Truthy(search_keywords) =>
        \/ Contains(Lower(get(entry, "title")), Lower(search_keywords))
        \/ Contains(Lower(get(entry, "description")), Lower(search_keywords))

\* variant of article_info giving every article a tags list
article_info_tags_always(entry) ==
    [title |-> get(entry, "title"),
     description |-> get(entry, "description"),
     url |-> get(entry, "link"),
     published_date |-> get(entry, "published"),
     tags |-> IF hasattr(entry, "tags")
              THEN [i \in 1..Len(entry.tags) |-> entry.tags[i].term]
              ELSE <<>>]

article_info(entry) ==
    LET info == [title |-> get(entry, "title"),
                 description |-> get(entry, "description"),
                 url |-> get(entry, "link"),
                 published_date |-> get(entry, "published")]
    IN  IF hasattr(entry, "tags")
        THEN SetItem(info, "tags", [i \in 1..Len(entry.tags) |-> entry.tags[i].term])
        ELSE info

\* `break` of the scan loop, tested after the append
limit_reached(articles, max_articles) == Len(articles) >= max_articles

RECURSIVE scan_entries(_, _, _, _, _)
\* the loop `for entry in feed.entries` from entry i on
scan_entries(entries, i, articles, max_articles, search_keywords) ==
    IF i > Len(entries) THEN [articles |-> articles, scanned |-> Len(entries)]
    ELSE IF ~keyword_match(entries[i], search_keywords)
         THEN scan_entries(entries, i + 1, articles, max_articles, search_keywords)
    ELSE LET appended == Append(articles, article_info(entries[i]))
         IN  IF limit_reached(appended, max_articles)
             THEN [articles |-> appended, scanned |-> i]
             ELSE scan_entries(entries, i + 1, appended, max_articles, search_keywords)

FeedEnvelope(articles, search_keywords) ==
    [source |-> "AWS What's New Feed", feed_url |-> FeedUrl,
     total_articles_returned |-> Len(articles),
     search_keywords |-> search_keywords, articles |-> articles]

\* variant of feed_news_body reporting a bozo feed only when it has no entries
feed_news_body_bozo_when_empty(f, max_articles, search_keywords) ==
    IF f.kind = "fault" THEN Raise("Exception", "feed fault")
    ELSE IF f.bozo /\ f.entries = <<>>
         THEN Returns([string |-> ErrorString("Error parsing RSS feed", f.bozo_exception),
                       scanned |-> 0])
    ELSE LET s == scan_entries(f.entries, 1, <<>>, max_articles, search_keywords)
         IN  Returns([string |-> FeedEnvelope(s.articles, search_keywords),
                      scanned |-> s.scanned])

\* the body of the try block: the returned string and the entries scanned, or a raise
feed_news_body(f, max_articles, search_keywords) ==
    IF f.kind = "fault" THEN Raise("Exception", "feed fault")
    ELSE IF f.bozo
         THEN Returns([string |-> ErrorString("Error parsing RSS feed", f.bozo_exception),
                       scanned |-> 0])
    ELSE LET s == scan_entries(f.entries, 1, <<>>, max_articles, search_keywords)
         IN  Returns([string |-> FeedEnvelope(s.articles, search_keywords),
                      scanned |-> s.scanned])

FeedArgs == [max_articles : (-1)..MaxArticles, search_keywords : SearchKeywords]

get_aws_feed_news ==
    /\ pc = "idle"
    /\ \E v \in {"http", "studio"}, a \in FeedArgs, f \in FeedOutcomes :
        LET r == feed_news_body(f, a.max_articles, a.search_keywords) IN
        /\ variant' = v /\ op' = "get_aws_feed_news" /\ args' = a /\ feed' = f
        /\ outcome' = IF r.raised THEN r.type ELSE IF f.bozo THEN "bozo" ELSE "ok"
        /\ IF r.raised
           THEN ExceptClause("get_aws_feed_news", r) /\ scanned' = 0
           ELSE /\ pc' = "returned"
                /\ result' = r.value.string
                /\ scanned' = r.value.scanned
    /\ UNCHANGED <<params, gets, clients_created, clients_open, response,
                   conc_vars, prompt>>

\* the caller takes the returned string; nothing of the invocation is kept
Complete ==
    /\ pc = "returned"
    /\ pc' = "idle" /\ variant' = "http" /\ op' = "none" /\ args' = <<>>
    /\ params' = <<>> /\ gets' = 0 /\ clients_created' = 0
    /\ response' = <<>> /\ outcome' = "none"
    /\ feed' = <<>> /\ scanned' = 0 /\ result' = NoResult
    /\ UNCHANGED <<clients_open, conc_vars, prompt>>

----------------------------------------------------------------------------
\* concurrent invocations in flight at most
NumInvocations == 2
Invocations == 1..NumInvocations

NoCall == [pc |-> "idle", variant |-> "http", op |-> "none", args |-> <<>>,
           response |-> <<>>, feed |-> <<>>, result |-> NoResult]
NoPrompt == [name |-> "none"]

\* no invocation in progress
ToolsIdle ==
    /\ pc = "idle" /\ variant = "http" /\ op = "none" /\ args = <<>>
    /\ params = <<>> /\ gets = 0 /\ clients_created = 0 /\ clients_open = 0
    /\ response = <<>> /\ outcome = "none"
    /\ feed = <<>> /\ scanned = 0 /\ result = NoResult
ConcIdle ==
    /\ calls = [i \in Invocations |-> NoCall]
    /\ frames = [i \in Invocations |-> <<>>]

Init == ToolsIdle /\ ConcIdle /\ prompt = NoPrompt

Next ==
    \/ get_aws_news
    \/ get_aws_announcements
    \/ get_aws_blogs
    \/ news_response
    \/ get_aws_feed_news
    \/ Complete

Spec == Init /\ [][Next]_vars

----------------------------------------------------------------------------
(* Vocabulary of the properties *)

NewsTools == {"get_aws_news", "get_aws_announcements", "get_aws_blogs"}

NewsEnvelopeKeys == {"topic", "news_type", "include_regional_expansions", "articles"}
FeedEnvelopeKeys ==
    {"source", "feed_url", "total_articles_returned", "search_keywords", "articles"}
ErrorKeys == {"error", "message"}

IsEnvelope(r) == DOMAIN r = NewsEnvelopeKeys \/ DOMAIN r = FeedEnvelopeKeys
IsErrorString(r) == DOMAIN r = ErrorKeys

\* ISO 8601 extended calendar date, alone or with "T", a time of day and an
\* optional "Z" or numeric offset
IsISO8601(s) ==
    /\ DateShape(s)
    /\ DateInRange(s)
    /\ Len(s) > 10 =>
        /\ s[11] = "T"
        /\ TimeShape(SubSeq(s, 12, Len(s)))
        /\ TimeInRange(SubSeq(s, 12, Len(s)))

\* the outbound parameters carry key k with value v
ParamIs(k, v) == k \in DOMAIN params /\ params[k] = v

\* the remote end failed the GET: network fault, non-2xx status or unparsable body
ResponseFailed(o) ==
    o.kind = "fault" \/ o.status \notin 200..299 \/ ~o.parsable

----------------------------------------------------------------------------
\* C1: every tool operation, for any input and any outcome of the outbound
\* call, ends by returning a string (an envelope or an error string); no fault
\* propagates to the caller.
C1_AlwaysReturnsString ==
    /\ pc # "raised"
    /\ pc = "returned" => (IsEnvelope(result) \/ IsErrorString(result))

\* a fault of the outbound call that ended in a returned error string
C1_Witness ==
    /\ pc = "returned"
    /\ op \in NewsTools
    /\ response # <<>> /\ response.kind = "fault"
    /\ IsErrorString(result)

\* C2: a since_date that is given and is not valid ISO 8601 is rejected, in
\* either variant, with the fixed message and without an outbound GET.
C2_InvalidDateFixedMessage ==
    (/\ op \in NewsTools
     /\ Truthy(args.since_date)
     /\ ~IsISO8601(args.since_date))
    => /\ pc = "returned"
       /\ gets = 0
       /\ result = ErrorString(ErrorContext(op), InvalidDateMessage)

\* C3: on a well-formed feed with max_articles >= 0 the returned articles are
\* the first min(max_articles, matching) matching entries in document order,
\* so total_articles_returned never exceeds max_articles.
C3_ExactlyMinArticles ==
    (/\ pc = "returned" /\ op = "get_aws_feed_news"
     /\ feed.kind = "parsed" /\ ~feed.bozo
     /\ args.max_articles >= 0)
    => LET kw == args.search_keywords
           hit(e) == Truthy(kw) =>
                        \/ Contains(Lower(get(e, "title")), Lower(kw))
                        \/ Contains(Lower(get(e, "description")), Lower(kw))
           matching == SelectSeq(feed.entries, hit)
           n == IF args.max_articles < Len(matching)
                THEN args.max_articles ELSE Len(matching)
       IN  /\ IsEnvelope(result)
           /\ result.articles = [i \in 1..n |-> article_info(matching[i])]
           /\ result.total_articles_returned <= args.max_articles

\* C4: with non-empty search_keywords an entry is kept iff the lowercased
\* keyword is a substring of its lowercased title or description; entries that
\* fail do not count toward max_articles, so a matching entry is returned
\* whenever fewer than max_articles matching entries precede it.
C4_KeywordFilter ==
    (/\ pc = "returned" /\ op = "get_aws_feed_news"
     /\ feed.kind = "parsed" /\ ~feed.bozo
     /\ Truthy(args.search_keywords))
    => LET kw == Lower(args.search_keywords)
           hit(e) == \/ Contains(Lower(get(e, "title")), kw)
                     \/ Contains(Lower(get(e, "description")), kw)
           matching == SelectSeq(feed.entries, hit)
           before(i) == Len(SelectSeq(SubSeq(feed.entries, 1, i - 1), hit))
       IN  /\ IsEnvelope(result)
           /\ Len(result.articles) <= Len(matching)
           /\ \A k \in 1..Len(result.articles) :
                  result.articles[k] = article_info(matching[k])
           /\ \A i \in 1..Len(feed.entries) :
                  (hit(feed.entries[i]) /\ before(i) < args.max_articles)
                  => /\ Len(result.articles) > before(i)
                     /\ result.articles[before(i) + 1] = article_info(feed.entries[i])

\* a matching entry behind a non-matching one is returned, found by its description
C4_Witness ==
    /\ pc = "returned" /\ op = "get_aws_feed_news"
    /\ feed.kind = "parsed" /\ ~feed.bozo
    /\ args.search_keywords = <<"L","A","M","B","D","A">>
    /\ args.max_articles = 1
    /\ Len(feed.entries) = 3
    /\ feed.entries[1] = ENTRY_s3 /\ feed.entries[2] = ENTRY_bare
    /\ feed.entries[3] = ENTRY_described
    /\ result.articles = <<article_info(ENTRY_described)>>

\* C5: a feed the parser reports malformed gives the string "Error parsing RSS
\* feed: <diagnostic>" with no articles, whatever entries the feed object
\* carries and whatever max_articles and search_keywords are; no entry is scanned.
C5_BozoFeed ==
    (/\ pc = "returned" /\ op = "get_aws_feed_news"
     /\ feed.kind = "parsed" /\ feed.bozo)
    => /\ result = ErrorString("Error parsing RSS feed", feed.bozo_exception)
       /\ "articles" \notin DOMAIN result
       /\ scanned = 0

\* a malformed feed that still carries entries, asked for with a positive limit
C5_Witness ==
    /\ pc = "returned" /\ op = "get_aws_feed_news"
    /\ feed.kind = "parsed" /\ feed.bozo
    /\ Len(feed.entries) >= 2
    /\ args.max_articles >= 1
    /\ IsErrorString(result)

\* C6: a result is a complete envelope or an error string, never a mix; when
\* the query builder, the HTTP call or the body parse fails, the result is an
\* error string with no envelope field and no articles.
C6_EnvelopeOrError ==
    pc = "returned" =>
        /\ IsEnvelope(result) # IsErrorString(result)
        /\ IsErrorString(result) => DOMAIN result \cap (NewsEnvelopeKeys \cup FeedEnvelopeKeys) = {}
        /\ (op \in NewsTools /\ (gets = 0 \/ ResponseFailed(response)))
            => IsErrorString(result) /\ result.error = ErrorContext(op)
        /\ (op \in NewsTools /\ gets = 1 /\ ~ResponseFailed(response))
            => /\ DOMAIN result = NewsEnvelopeKeys
               /\ result.topic = args.topic
               /\ result.articles = response.data

\* a non-2xx status that came back as an error string
C6_Witness ==
    /\ pc = "returned" /\ op \in NewsTools
    /\ response # <<>> /\ response.kind = "response" /\ response.status = 301
    /\ response.parsable
    /\ IsErrorString(result)

\* C7: the article-type filter depends only on the lowercased news_type: any
\* casing of "news" gives "news", any casing of "blogs" or "blog" gives "blog",
\* every other value leaves article_type out and is no reason for an error.
C7_ArticleTypeFilter ==
    op \in NewsTools =>
        LET nt == Lower(EffectiveNewsType(op, args)) IN
        /\ gets = 1 =>
            /\ nt = STR_news => ParamIs("article_type", STR_news)
            /\ nt \in {STR_blogs, STR_blog} => ParamIs("article_type", STR_blog)
            /\ nt \notin {STR_news, STR_blogs, STR_blog}
                => "article_type" \notin DOMAIN params
        /\ gets = 0 => Truthy(args.since_date)

\* upper-case BLOGS filtered as blog
C7_Witness ==
    /\ pc = "awaiting" /\ op = "get_aws_news"
    /\ args.news_type = <<"B","L","O","G","S">>
    /\ params.article_type = STR_blog

C9_BlogsFixed ==
    op = "get_aws_blogs" =>
        /\ gets = 1 =>
            /\ ParamIs("hide_regional_expansions", TRUE)
            /\ ParamIs("article_type", STR_blog)
        /\ (pc = "returned" /\ IsEnvelope(result)) =>
            /\ result.include_regional_expansions = FALSE
            /\ result.news_type = STR_blogs

\* an envelope of get_aws_blogs, the caller holding include_regional_expansions true
C9_Witness ==
    /\ pc = "returned" /\ op = "get_aws_blogs"
    /\ args.include_regional_expansions = TRUE
    /\ args.news_type = STR_news
    /\ IsEnvelope(result)
    /\ Len(result.articles) = 2

\* C10: an invocation of a news tool whose query passes validation performs
\* exactly one GET, a rejected one performs none; a failed GET is not retried
\* and its failure is what the returned error string reports.
C10_ExactlyOneGet ==
    op \in NewsTools =>
        LET valid == Truthy(args.since_date) =>
                        fromisoformat_ok(Replace(args.since_date, "Z", STR_utc_offset))
        IN  /\ gets = (IF valid THEN 1 ELSE 0)
            /\ clients_created = gets
            /\ ~valid => pc = "returned" /\ IsErrorString(result)
            /\ (pc = "returned" /\ valid /\ ResponseFailed(response))
                => /\ IsErrorString(result)
                   /\ result.message = fetch_aws_news_response(response).msg

\* a failed GET reported, after a single GET
C10_Witness ==
    /\ pc = "returned" /\ op \in NewsTools
    /\ gets = 1
    /\ response.kind = "response" /\ response.status = 500
    /\ IsErrorString(result)

----------------------------------------------------------------------------
(* Concurrent invocations: coroutines of the tool operations interleaved at *)
(* the await of client.get(url)                                             *)

\* the result of a tool operation run alone on arguments a, remote answer o
\* and parsed feed f
SoloResult(v, tool, a, o, f) ==
    IF tool = "get_aws_feed_news"
    THEN LET r == feed_news_body(f, a.max_articles, a.search_keywords)
         IN  IF r.raised THEN ErrorString(ErrorContext(tool), r.msg)
             ELSE r.value.string
    ELSE LET q == build_query(v, a.topic, EffectiveNewsType(tool, a),
                              EffectiveRegional(tool, a), a.number_of_results,
                              a.since_date)
         IN  IF q.raised THEN ErrorString(ErrorContext(tool), q.msg)
             ELSE LET r == fetch_aws_news_response(o)
                  IN  IF r.raised THEN ErrorString(ErrorContext(tool), r.msg)
                      ELSE NewsEnvelope(a.topic, EffectiveNewsType(tool, a),
                                        EffectiveRegional(tool, a), r.value)

\* the calls, answers and feeds of the concurrent runs
ConcNewsCalls ==
    [variant : {"http", "studio"}, op : {"get_aws_news"},
     args : [topic : Topics, news_type : {STR_all},
             include_regional_expansions : {FALSE}, number_of_results : {1},
             since_date : {DATE_z, DATE_invalid}]]
ConcOutcomes ==
    { o \in RemoteOutcomes :
        \/ o.kind = "fault"
        \/ o.status = 200 /\ o.parsable /\ o.data = <<"a1">> }
ConcFeedArgs == [max_articles : {1}, search_keywords : {None, <<"s","3">>}]
ConcFeeds ==
    { f \in FeedOutcomes : f.kind = "parsed" /\ ~f.bozo /\ f.entries = <<ENTRY_s3>> }

\* variant of FrameOf keeping the locals in one module-level place
FrameShared(i) == 1

\* each call of a coroutine function has a frame of its own for its
\* parameters and locals
FrameOf(i) == i

\* the position and the result after exception r
AfterExcept(c, r) ==
    IF Caught(r.type)
    THEN [c EXCEPT !.pc = "returned",
                   !.result = ErrorString(ErrorContext(c.op), r.msg)]
    ELSE [c EXCEPT !.pc = "raised"]

\* invocation i runs get_aws_news up to the await, or to its return
conc_news_call(i) ==
    /\ calls[i].pc = "idle"
    /\ \E c \in ConcNewsCalls :
        LET a == c.args
            q == build_query(c.variant, a.topic, EffectiveNewsType(c.op, a),
                             EffectiveRegional(c.op, a), a.number_of_results,
                             a.since_date)
            started == [NoCall EXCEPT !.variant = c.variant, !.op = c.op, !.args = a]
        IN  IF q.raised
            THEN /\ calls' = [calls EXCEPT ![i] = AfterExcept(started, q)]
                 /\ UNCHANGED frames
            ELSE /\ calls' = [calls EXCEPT ![i] = [started EXCEPT !.pc = "awaiting"]]
                 /\ frames' = [frames EXCEPT ![FrameOf(i)] =
                                 [topic |-> a.topic,
                                  news_type |-> EffectiveNewsType(c.op, a),
                                  include_regional_expansions |->
                                      EffectiveRegional(c.op, a),
                                  params |-> q.value]]
    /\ UNCHANGED <<tool_vars, prompt>>

\* the GET of invocation i completes and the tool returns
conc_news_response(i) ==
    /\ calls[i].pc = "awaiting"
    /\ \E o \in ConcOutcomes :
        LET r == fetch_aws_news_response(o)
            answered == [calls[i] EXCEPT !.response = o]
            mine == frames[FrameOf(i)]
        IN  calls' = [calls EXCEPT ![i] =
                IF r.raised THEN AfterExcept(answered, r)
                ELSE [answered EXCEPT
                        !.pc = "returned",
                        !.result = NewsEnvelope(mine.topic, mine.news_type,
                                                mine.include_regional_expansions,
                                                r.value)]]
    /\ UNCHANGED <<frames, tool_vars, prompt>>

\* get_aws_feed_news has no await: invocation i runs it in one step
conc_feed_news(i) ==
    /\ calls[i].pc = "idle"
    /\ \E v \in {"studio"}, a \in ConcFeedArgs, f \in ConcFeeds :
        LET r == feed_news_body(f, a.max_articles, a.search_keywords)
            started == [NoCall EXCEPT !.variant = v, !.op = "get_aws_feed_news",
                                      !.args = a, !.feed = f]
        IN  calls' = [calls EXCEPT ![i] =
                IF r.raised THEN AfterExcept(started, r)
                ELSE [started EXCEPT !.pc = "returned", !.result = r.value.string]]
    /\ UNCHANGED <<frames, tool_vars, prompt>>

\* the caller of invocation i takes the returned string
conc_complete(i) ==
    /\ calls[i].pc = "returned"
    /\ calls' = [calls EXCEPT ![i] = NoCall]
    /\ UNCHANGED <<frames, tool_vars, prompt>>

NextConc ==
    \E i \in Invocations :
        \/ conc_news_call(i)
        \/ conc_news_response(i)
        \/ conc_feed_news(i)
        \/ conc_complete(i)

SpecConc == Init /\ [][NextConc]_vars

\* C11: in every interleaving of concurrent invocations, each invocation
\* returns the string it would return run alone with the same arguments and
\* the same remote answer; nothing of another invocation shows in its result.
C11_IndependentInvocations ==
    \A i \in Invocations :
        /\ calls[i].pc # "raised"
        /\ calls[i].pc = "returned" =>
            calls[i].result = SoloResult(calls[i].variant, calls[i].op, calls[i].args,
                                         calls[i].response, calls[i].feed)

\* an invocation returned its envelope while another, called later with
\* another topic, is still awaiting its response
C11_Witness ==
    \E i, j \in Invocations :
        /\ i # j
        /\ calls[i].pc = "returned" /\ calls[i].op = "get_aws_news"
        /\ DOMAIN calls[i].result = NewsEnvelopeKeys
        /\ calls[j].pc = "awaiting"
        /\ calls[j].args.topic # calls[i].args.topic
        /\ calls[i].result.topic = calls[i].args.topic

----------------------------------------------------------------------------
(* Prompt templates (promptz.py)                                            *)
(*                                                                          *)
(* An instant is a proleptic Gregorian day ordinal (0001-01-01 is day 1)    *)
(* and a second of that day; an instruction string is the record of the     *)
(* values formatted into it.                                                *)

\* date.min.toordinal() and date.max.toordinal(): the days a datetime can hold
MinOrdinal == 1
MaxOrdinal == 3652059
\* timedelta(days=d) takes a magnitude of at most this many days
MaxDeltaDays == 999999999

\* datetime.now(UTC) at the time of a call
Nows == { [day |-> 739925, sec |-> 0], [day |-> 739926, sec |-> 86399] }

PromptServices == { <<"s","3">>, <<>> }
PromptDays == { -3000000, -1, 0, 1, 30, 739925, 800000, 999999999, 1000000000 }
PromptWeeks == { 0, 1, 2, 150000000, 200000000 }
PromptMaxArticles == { -1, 0, 10 }

\* datetime.now(UTC) - timedelta(days=days)
lookback(now, days) ==
    IF days > MaxDeltaDays \/ days < -MaxDeltaDays
    THEN Raise("OverflowError", "days must have magnitude <= 999999999")
    ELSE IF now.day - days < MinOrdinal \/ now.day - days > MaxOrdinal
         THEN Raise("OverflowError", "date value out of range")
    ELSE Returns([day |-> now.day - days, sec |-> now.sec])

\* variant of weekly_days taking the weeks for days
weekly_days_unscaled(weeks) == weeks

\* days = weeks * 7
weekly_days(weeks) == weeks * 7

\* a template that is called leaves its arguments, the clock it read and
\* either the instruction it returned or the exception it raised
Prompted(name, a, now, r, text) ==
    /\ prompt' = [name |-> name, args |-> a, now |-> now, raised |-> r.raised,
                  text |-> IF r.raised THEN [error |-> r.type] ELSE text]
    /\ UNCHANGED <<tool_vars, conc_vars>>

aws_recent_updates ==
    /\ prompt = NoPrompt
    /\ \E service \in PromptServices, days \in PromptDays, now \in Nows :
        LET r == lookback(now, days) IN
        Prompted("aws_recent_updates", [service |-> service, days |-> days], now, r,
                 [tool |-> "get_aws_news", topic |-> service, news_type |-> STR_all,
                  since_date |-> r.value, number_of_results |-> 40])

aws_latest_blogs ==
    /\ prompt = NoPrompt
    /\ \E service \in PromptServices, days \in PromptDays, now \in Nows :
        LET r == lookback(now, days) IN
        Prompted("aws_latest_blogs", [service |-> service, days |-> days], now, r,
                 [tool |-> "get_aws_news", topic |-> service, news_type |-> STR_blogs,
                  since_date |-> r.value, number_of_results |-> 40])

aws_latest_announcements ==
    /\ prompt = NoPrompt
    /\ \E service \in PromptServices, days \in PromptDays, now \in Nows :
        LET r == lookback(now, days) IN
        Prompted("aws_latest_announcements", [service |-> service, days |-> days], now, r,
                 [tool |-> "get_aws_news", topic |-> service, news_type |-> STR_news,
                  since_date |-> r.value, number_of_results |-> 40])

aws_regional_expansions ==
    /\ prompt = NoPrompt
    /\ \E service \in PromptServices, days \in PromptDays, now \in Nows :
        LET r == lookback(now, days) IN
        Prompted("aws_regional_expansions", [service |-> service, days |-> days], now, r,
                 [tool |-> "get_aws_news", topic |-> service,
                  include_regional_expansions |-> TRUE,
                  since_date |-> r.value, number_of_results |-> 40])

\* today at 00:00:00Z: no subtraction
aws_whats_new_today ==
    /\ prompt = NoPrompt
    /\ \E service \in PromptServices, now \in Nows :
        Prompted("aws_whats_new_today", [service |-> service], now,
                 Returns([day |-> now.day, sec |-> 0]),
                 [tool |-> "get_aws_news", topic |-> service, news_type |-> STR_all,
                  since_date |-> [day |-> now.day, sec |-> 0],
                  number_of_results |-> 20])

aws_weekly_digest ==
    /\ prompt = NoPrompt
    /\ \E service \in PromptServices, weeks \in PromptWeeks, now \in Nows :
        LET r == lookback(now, weekly_days(weeks)) IN
        Prompted("aws_weekly_digest", [service |-> service, weeks |-> weeks], now, r,
                 [tool |-> "get_aws_news", topic |-> service, news_type |-> STR_all,
                  since_date |-> r.value, number_of_results |-> 50])

aws_comprehensive_search ==
    /\ prompt = NoPrompt
    /\ \E service \in PromptServices, days \in PromptDays, include_regional \in BOOLEAN,
       now \in Nows :
        LET r == lookback(now, days) IN
        Prompted("aws_comprehensive_search",
                 [service |-> service, days |-> days,
                  include_regional |-> include_regional], now, r,
                 [tool |-> "get_aws_news", topic |-> service, news_type |-> STR_all,
                  since_date |-> r.value,
                  include_regional_expansions |-> include_regional,
                  number_of_results |-> 100])

aws_latest_feed_updates ==
    /\ prompt = NoPrompt
    /\ \E max_articles \in PromptMaxArticles, now \in Nows :
        Prompted("aws_latest_feed_updates", [max_articles |-> max_articles], now,
                 Returns(<<>>),
                 [tool |-> "get_aws_feed_news", max_articles |-> max_articles])

aws_feed_service_updates ==
    /\ prompt = NoPrompt
    /\ \E service \in PromptServices, max_articles \in PromptMaxArticles, now \in Nows :
        Prompted("aws_feed_service_updates",
                 [service |-> service, max_articles |-> max_articles], now,
                 Returns(<<>>),
                 [tool |-> "get_aws_feed_news", search_keywords |-> service,
                  max_articles |-> max_articles])

aws_breaking_news ==
    /\ prompt = NoPrompt
    /\ \E now \in Nows :
        Prompted("aws_breaking_news", <<>>, now, Returns(<<>>),
                 [tool |-> "get_aws_feed_news", max_articles |-> 5])

\* the caller takes the instruction, or the exception
prompt_done ==
    /\ prompt # NoPrompt
    /\ prompt' = NoPrompt
    /\ UNCHANGED <<tool_vars, conc_vars>>

NextPrompts ==
    \/ aws_recent_updates
    \/ aws_latest_blogs
    \/ aws_latest_announcements
    \/ aws_regional_expansions
    \/ aws_whats_new_today
    \/ aws_weekly_digest
    \/ aws_comprehensive_search
    \/ aws_latest_feed_updates
    \/ aws_feed_service_updates
    \/ aws_breaking_news
    \/ prompt_done

SpecPrompts == Init /\ [][NextPrompts]_vars

DaysTemplates ==
    {"aws_recent_updates", "aws_latest_blogs", "aws_latest_announcements",
     "aws_regional_expansions", "aws_comprehensive_search"}

\* the days a called template looks back (0 for the templates without a lookback)
LookbackDays ==
    IF prompt.name \in DaysTemplates THEN prompt.args.days
    ELSE IF prompt.name = "aws_weekly_digest" THEN prompt.args.weeks * 7
    ELSE 0

\* the since instant of the called template is the clock minus its lookback
SinceIsNowMinusLookback ==
    prompt.name \in DaysTemplates \cup {"aws_weekly_digest"} =>
        /\ "since_date" \in DOMAIN prompt.text
        /\ prompt.text.since_date =
              [day |-> prompt.now.day - LookbackDays, sec |-> prompt.now.sec]

\* C12 as stated: every template, for every argument value, returns an
\* instruction without failing and without an outbound call, its since
\* instant being the clock minus weeks * 7 days, or minus days.
C12_PromptsNeverFail ==
    prompt # NoPrompt =>
        /\ ~prompt.raised
        /\ gets = 0 /\ clients_created = 0
        /\ SinceIsNowMinusLookback

\* C12 as amended: the same, for the arguments whose lookback is at most
\* 999999999 days in magnitude and leaves the since instant between
\* 0001-01-01 and 9999-12-31.
C12_PromptsInRange ==
    (/\ prompt # NoPrompt
     /\ LookbackDays <= MaxDeltaDays /\ LookbackDays >= -MaxDeltaDays
     /\ prompt.now.day - LookbackDays >= MinOrdinal
     /\ prompt.now.day - LookbackDays <= MaxOrdinal)
    => /\ ~prompt.raised
       /\ gets = 0 /\ clients_created = 0
       /\ SinceIsNowMinusLookback

\* the weekly digest of two weeks, fourteen days back
C12_Witness ==
    /\ prompt # NoPrompt
    /\ prompt.name = "aws_weekly_digest"
    /\ prompt.args.weeks = 2
    /\ ~prompt.raised
    /\ prompt.text.since_date.day = prompt.now.day - 14

----------------------------------------------------------------------------
OtherVariant(v) == IF v = "http" THEN "studio" ELSE "http"

\* C13: on the operations both variants expose, get_aws_news and
\* get_aws_feed_news, the two variants return the same string for the same
\* arguments and the same remote outcome.
C13_VariantsAgree ==
    (pc = "returned" /\ op \in {"get_aws_news", "get_aws_feed_news"})
    => result = SoloResult(OtherVariant(variant), op, args, response, feed)

\* C14: an invocation that reaches the outbound call creates exactly one HTTP
\* client, open while the GET is awaited and closed when the tool has
\* returned, on success and on every failure; a rejected invocation creates none.
C14_ClientLifecycle ==
    /\ clients_open \in {0, 1}
    /\ pc = "idle" => clients_open = 0 /\ clients_created = 0
    /\ pc = "awaiting" => clients_open = 1 /\ clients_created = 1
    /\ pc = "returned" =>
        /\ clients_open = 0
        /\ clients_created = (IF response = <<>> THEN 0 ELSE 1)
        /\ (op \in NewsTools /\ outcome = "rejected") => clients_created = 0
        /\ (op \in NewsTools /\ outcome # "rejected") => clients_created = 1

\* returned after a body that does not parse, the one client closed
C14_Witness ==
    /\ pc = "returned" /\ op \in NewsTools
    /\ response # <<>> /\ response.kind = "response"
    /\ response.status = 200 /\ ~response.parsable
    /\ IsErrorString(result)
    /\ clients_created = 1 /\ clients_open = 0

\* C15: an article of the feed envelope has a tags field iff its entry has a
\* tags collection; the field is then the entry's tag terms in order.
C15_TagsIffCollection ==
    (/\ pc = "returned" /\ op = "get_aws_feed_news"
     /\ feed.kind = "parsed" /\ ~feed.bozo)
    => LET kw == args.search_keywords
           hit(e) == (kw # None /\ Len(kw) > 0) =>
                        \/ Contains(Lower(get(e, "title")), Lower(kw))
                        \/ Contains(Lower(get(e, "description")), Lower(kw))
           matching == SelectSeq(feed.entries, hit)
       IN  /\ "articles" \in DOMAIN result
           /\ Len(result.articles) <= Len(matching)
           /\ \A k \in 1..Len(result.articles) :
                LET art == result.articles[k]
                    e == matching[k]
                IN  /\ ("tags" \in DOMAIN art) <=> ("tags" \in DOMAIN e)
                    /\ "tags" \in DOMAIN e =>
                        /\ Len(art.tags) = Len(e.tags)
                        /\ \A t \in 1..Len(e.tags) : art.tags[t] = e.tags[t].term

\* an entry without tags and an entry with two tags, returned side by side
C15_Witness ==
    /\ pc = "returned" /\ op = "get_aws_feed_news"
    /\ feed.kind = "parsed" /\ ~feed.bozo
    /\ feed.entries = <<ENTRY_lambda, ENTRY_described>>
    /\ "articles" \in DOMAIN result
    /\ Len(result.articles) = 2
    /\ "tags" \notin DOMAIN result.articles[1]
    /\ result.articles[2].tags = << <<"s","3">>, <<"n","e","w">> >>

\* C16: an empty since_date is treated as an absent one: it is not validated,
\* no "since" parameter is sent and the call is made; only a non-empty
\* since_date can be rejected.
C16_EmptySinceDateAsAbsent ==
    op \in NewsTools =>
        /\ args.since_date = <<>> =>
            /\ pc \in {"awaiting", "returned"}
            /\ gets = 1
            /\ "since" \notin DOMAIN params
            /\ params = build_query(variant, args.topic, EffectiveNewsType(op, args),
                                    EffectiveRegional(op, args),
                                    args.number_of_results, None).value
        /\ gets = 0 => (args.since_date # None /\ Len(args.since_date) > 0)

\* the call on its way with an empty since_date
C16_Witness ==
    /\ pc = "awaiting" /\ op \in NewsTools
    /\ args.since_date = <<>>
    /\ "since" \notin DOMAIN params
    /\ gets = 1
====
